---- MODULE Spec2Model ----
(***************************************************************************)
(* Model of jimmy-park/tasker: the closeable ConcurrentQueue               *)
(* (include/concurrent_queue.h) and the work-stealing pools Tasker<T,N>,   *)
(* Tasker<T,1>, TaskerBase<Derived,T,N>, TaskerBase<Derived,T,1>           *)
(* (include/tasker.h).                                                     *)
(*                                                                         *)
(* Threads: one controlling thread ("main": Stop, Clear, move, destroy),   *)
(* one producer thread ("poster": Post) and one worker thread per lane of  *)
(* each pool.  Every critical section is two steps: the acquisition of the *)
(* lane's mutex (blocking, or try_to_lock with its failure branch) and the *)
(* body up to the release, so that a try_lock observes the mutex held.     *)
(* A notify issued right after the release is part of the body step.       *)
(***************************************************************************)
EXTENDS Integers, Sequences, FiniteSets, TLC

\* ---------------------------------------------------------------- bounds
MaxPosts == 2          \* Post calls made by the producer thread
SpreadPosts == 4       \* Post calls made in the round-robin scenario (a multiple of N)

\* ------------------------------------------------------------- constants
N == 2                 \* lane count of the general template (N != 1)
NoValue == 0           \* an empty std::optional<T>

Pools == {"A", "B"}
LaneIdx == 0 .. (N - 1)
Kinds == {"Tasker", "TaskerBase"}

Main == <<"main", 0>>
Poster == <<"poster", 0>>
NoThread == <<"none", 0>>

VARIABLES
    kind,      \* which class template both pools instantiate
    count_,    \* count_: 1 (the <T,1> specialisations) or N
    life,      \* life[p]: "unborn", "live" or "dead" (object lifetime)
    nqueues,   \* queues_.size(): count_, or 0 after Tasker<T,N>::Stop cleared it
    done_,     \* done_[p,n]: ConcurrentQueue::done_
    queue_,    \* queue_[p,n]: ConcurrentQueue::queue_
    mutex_,    \* mutex_[p,n]: the thread holding ConcurrentQueue::mutex_
    cv_,       \* cv_[p,n]: the threads blocked in cv_.wait
    index_,    \* index_[p]: the rotation counter
    tsize,     \* taskers_.size() (for count_ = 1: 1, the single future)
    valid,     \* valid[p,n]: taskers_[n].valid()
    wpc,       \* wpc[p,n]: position of worker n of pool p in Run
    wi,        \* wi[p,n]: position in the steal scan (index into indices)
    wval,      \* wval[p,n]: the worker's local std::optional<T> value
    mpc,       \* position of the controlling thread
    mop,       \* the operation the controlling thread is in
    mp,        \* the pool whose Stop/Clear/destructor is running
    mn,        \* loop variable of the controlling thread
    ppc,       \* position of the producer thread
    pp,        \* the pool Post was called on
    pk,        \* Post's local index (result of fetch_add)
    pn,        \* Post's loop variable n
    pv,        \* the item being posted
    posted,    \* history: number of Post calls started
    log,       \* history: log[p] = items handed to p's handler, in order
    home,      \* history: home[i] = <<p, n>>: the Post of item i enqueued it in lane n of
               \* pool p (NoHome: the item was dropped)
    stops,     \* history: stops[p] = Stop() calls on p that returned
    clears,    \* history: Clear() calls started
    moved,     \* history: "no", "ctor" or "assign" once a move started
    ub,        \* history: a lane that does not exist was accessed
    crashed    \* the process died of that access

laneVars == <<done_, queue_, mutex_, cv_>>
poolVars == <<kind, count_, life, nqueues, index_, tsize, valid>>
workerVars == <<wpc, wi, wval>>
mainVars == <<mpc, mop, mp, mn>>
postVars == <<ppc, pp, pk, pn, pv, posted>>
histVars == <<log, home, stops, clears, moved, ub, crashed>>
vars == <<laneVars, poolVars, workerVars, mainVars, postVars, histVars>>

\* ------------------------------------------------- ConcurrentQueue<T>
\* std::queue::front / pop
Front(q) == Head(q)
PopFront(q) == Tail(q)

\* mutant: the item is put at the head of the queue
EmplaceBack_AtHead(q, v) == <<v>> \o q

\* std::queue::emplace
EmplaceBack(q, v) == Append(q, v)

\* std::unique_lock { mutex_, std::try_to_lock } succeeded / lock_guard acquirable
Unlocked(p, n) == mutex_[p, n] = NoThread

\* a Pop that does not wait
PopReady_Always(p, n) == TRUE

\* a wait predicate that does not look at the closed flag
PopReady_NonEmptyOnly(p, n) == queue_[p, n] # <<>>

\* a wait predicate that is satisfied by the closed flag alone
PopReady_ClosedOnly(p, n) == done_[p, n]

\* the predicate of cv_.wait in Pop
PopReady(p, n) == done_[p, n] \/ queue_[p, n] # <<>>

\* mutant: Emplace without its cv_.notify_one()
NotifyOne_Missing(p, n, c) == {c}

\* cv_.notify_one(): one blocked thread (if any) leaves the wait
NotifyOne(p, n, c) ==
    IF c[p, n] = {} THEN {c}
    ELSE {[c EXCEPT ![p, n] = c[p, n] \ {t}] : t \in c[p, n]}

\* a close that wakes a single waiter
NotifyAll_OnlyOne(p, n, c) ==
    IF c[p, n] = {} THEN c ELSE [c EXCEPT ![p, n] = c[p, n] \ {CHOOSE t \in c[p, n] : TRUE}]

\* cv_.notify_all()
NotifyAll(p, n, c) == [c EXCEPT ![p, n] = {}]

\* a test of done_ that never sees the flag
Closed_Ignored(p, n) == FALSE

\* the test of done_ in Emplace / TryEmplace
Closed(p, n) == done_[p, n]

\* ------------------------------------------------------------ workers
\* indices[k] of the worker bound to lane n
StealIndex(n, k) == (n + k) % count_

\* where a worker's loop starts: the steal scan, or Pop in the <T,1> classes
LoopStart == IF count_ = 1 THEN "pop" ELSE "scan"

WorkerFrame == <<poolVars, mainVars, postVars, home, stops, clears, moved, ub, crashed>>

\* a steal attempt that yielded no value: next lane of the scan, or the blocking Pop
ScanNext(p, n) ==
    IF wi[p, n] + 1 < count_
    THEN /\ wi' = [wi EXCEPT ![p, n] = wi[p, n] + 1]
         /\ wpc' = [wpc EXCEPT ![p, n] = "scan"]
    ELSE /\ wi' = [wi EXCEPT ![p, n] = 0]
         /\ wpc' = [wpc EXCEPT ![p, n] = "pop"]

\* a pop that yielded the head of lane l: the value goes to the handler
TakeHead(p, n, l) ==
    /\ wval' = [wval EXCEPT ![p, n] = Front(queue_[p, l])]
    /\ queue_' = [queue_ EXCEPT ![p, l] = PopFront(queue_[p, l])]
    /\ wpc' = [wpc EXCEPT ![p, n] = "handle"]
    /\ wi' = [wi EXCEPT ![p, n] = 0]
    /\ log' = [log EXCEPT ![p] = Append(log[p], Front(queue_[p, l]))]

\* TryPop: the try_to_lock
RunTryLock(p, n) ==
    /\ ~crashed
    /\ wpc[p, n] = "scan"
    /\ LET l == StealIndex(n, wi[p, n]) IN
       IF Unlocked(p, l)
       THEN /\ mutex_' = [mutex_ EXCEPT ![p, l] = <<p, n>>]
            /\ wpc' = [wpc EXCEPT ![p, n] = "scanbody"]
            /\ UNCHANGED wi
       ELSE /\ ScanNext(p, n)
            /\ UNCHANGED mutex_
    /\ UNCHANGED <<done_, queue_, cv_, wval, log, WorkerFrame>>

\* a TryPop that yields a value only from an open lane
TryPopReady_OpenOnly(p, l) == ~done_[p, l] /\ queue_[p, l] # <<>>

\* the test of TryPop under the lock: !queue_.empty(); done_ is not read
TryPopReady(p, l) == queue_[p, l] # <<>>

\* TryPop: the body under the lock
RunTryBody(p, n) ==
    /\ ~crashed
    /\ wpc[p, n] = "scanbody"
    /\ LET l == StealIndex(n, wi[p, n]) IN
       /\ mutex_' = [mutex_ EXCEPT ![p, l] = NoThread]
       /\ IF TryPopReady(p, l)
          THEN TakeHead(p, n, l)
          ELSE ScanNext(p, n) /\ UNCHANGED <<queue_, wval, log>>
    /\ UNCHANGED <<done_, cv_, WorkerFrame>>

\* Pop on lane l by thread <<p, n>>: std::unique_lock lock { mutex_ }, also the
\* re-acquisition after a wake-up
PopLockOn(p, n, l) ==
    /\ ~crashed
    /\ wpc[p, n] = "pop"
    /\ <<p, n>> \notin cv_[p, l]
    /\ Unlocked(p, l)
    /\ mutex_' = [mutex_ EXCEPT ![p, l] = <<p, n>>]
    /\ wpc' = [wpc EXCEPT ![p, n] = "popbody"]
    /\ UNCHANGED <<done_, queue_, cv_, wi, wval, log, WorkerFrame>>

\* Pop on lane l by thread <<p, n>>: the wait predicate, then the pop or the
\* empty optional
PopBodyOn(p, n, l) ==
    /\ ~crashed
    /\ wpc[p, n] = "popbody"
    /\ mutex_' = [mutex_ EXCEPT ![p, l] = NoThread]
    /\ IF PopReady(p, l)
       THEN IF queue_[p, l] # <<>>
            THEN TakeHead(p, n, l) /\ UNCHANGED cv_
            ELSE /\ wpc' = [wpc EXCEPT ![p, n] = "exit"]
                 /\ UNCHANGED <<queue_, cv_, wi, wval, log>>
       ELSE /\ cv_' = [cv_ EXCEPT ![p, l] = cv_[p, l] \cup {<<p, n>>}]
            /\ wpc' = [wpc EXCEPT ![p, n] = "pop"]
            /\ UNCHANGED <<queue_, wi, wval, log>>
    /\ UNCHANGED <<done_, WorkerFrame>>

\* Run: queue.Pop() on the worker's own lane
RunPopLock(p, n) == PopLockOn(p, n, n)

\* Run: the end of the stream is the empty optional of queue.Pop()
RunPopBody(p, n) == PopBodyOn(p, n, n)

\* the handler (function / Derived::Process) returns
HandlerReturn(p, n) ==
    /\ ~crashed
    /\ wpc[p, n] = "handle"
    /\ wpc' = [wpc EXCEPT ![p, n] = LoopStart]
    /\ wval' = [wval EXCEPT ![p, n] = NoValue]
    /\ UNCHANGED <<wi, laneVars, log, WorkerFrame>>

\* a spurious wake-up of cv_.wait of thread <<p, n>> waiting on lane l
SpuriousWakeOn(p, n, l) ==
    /\ ~crashed
    /\ <<p, n>> \in cv_[p, l]
    /\ cv_' = [cv_ EXCEPT ![p, l] = cv_[p, l] \ {<<p, n>>}]
    /\ UNCHANGED <<done_, queue_, mutex_, workerVars, log, WorkerFrame>>

SpuriousWake(p, n) == SpuriousWakeOn(p, n, n)

Worker(p, n) ==
    \/ RunTryLock(p, n)
    \/ RunTryBody(p, n)
    \/ RunPopLock(p, n)
    \/ RunPopBody(p, n)
    \/ HandlerReturn(p, n)

\* ------------------------------------------------------------- Post
NoHome == <<"none", 0>>

PostFrame == <<kind, count_, life, nqueues, tsize, valid, workerVars, mainVars, log, stops, clears, moved>>

\* a probe that always returns to the starting lane
ProbeLane_NoAdvance(k, n) == k % count_

\* the lane the n-th probe of a Post with rotation value k addresses
ProbeLane(k, n) == (k + n) % count_

\* queues_[l] names an element of the vector
LaneExists(p, l) == l < nqueues[p]

\* Post returns to its caller (its locals die)
PostReturn ==
    /\ ppc' = "idle"
    /\ pp' = "A"
    /\ pk' = 0
    /\ pn' = 0
    /\ pv' = NoValue

\* indexing queues_ past its size: the access is undefined; the builds either
\* fault or read the destroyed queue's done_ (true) and return
OutOfRange ==
    /\ ub' = TRUE
    /\ \E dies \in BOOLEAN : crashed' = dies
    /\ PostReturn
    /\ home' = Append(home, NoHome)

\* a TryEmplace that returned false: next probe, or the blocking Emplace
ProbeNext ==
    /\ IF pn + 1 < count_
       THEN pn' = pn + 1 /\ ppc' = "trylock"
       ELSE pn' = pn + 1 /\ ppc' = "emplock"
    /\ UNCHANGED <<pp, pk, pv, home, ub, crashed>>

\* the item is appended to lane l and one waiter is notified
Enqueue(l) ==
    /\ queue_' = [queue_ EXCEPT ![pp, l] = EmplaceBack(queue_[pp, l], pv)]
    /\ cv_' \in NotifyOne(pp, l, cv_)
    /\ home' = Append(home, <<pp, l>>)
    /\ PostReturn
    /\ UNCHANGED <<ub, crashed>>

\* Post: fetch_add on index_ (the <T,1> classes call Emplace at once)
PostStart(p, limit) ==
    /\ ~crashed
    /\ ppc = "idle"
    /\ posted < limit
    /\ life[p] = "live"
    /\ posted' = posted + 1
    /\ pv' = posted + 1
    /\ pp' = p
    /\ pn' = 0
    /\ IF count_ = 1
       THEN /\ ppc' = "emplock"
            /\ pk' = 0
            /\ UNCHANGED index_
       ELSE /\ ppc' = "trylock"
            /\ pk' = index_[p]
            /\ index_' = [index_ EXCEPT ![p] = index_[p] + 1]
    /\ UNCHANGED <<laneVars, home, ub, crashed, PostFrame>>

\* TryEmplace: the try_to_lock
PostTryLock ==
    /\ ~crashed
    /\ ppc = "trylock"
    /\ LET l == ProbeLane(pk, pn) IN
       IF ~LaneExists(pp, l)
       THEN OutOfRange /\ UNCHANGED mutex_
       ELSE IF Unlocked(pp, l)
            THEN /\ mutex_' = [mutex_ EXCEPT ![pp, l] = Poster]
                 /\ ppc' = "trybody"
                 /\ UNCHANGED <<pp, pk, pn, pv, home, ub, crashed>>
            ELSE ProbeNext /\ UNCHANGED mutex_
    /\ UNCHANGED <<done_, queue_, cv_, index_, posted, PostFrame>>

\* TryEmplace: the body under the lock
PostTryBody ==
    /\ ~crashed
    /\ ppc = "trybody"
    /\ LET l == ProbeLane(pk, pn) IN
       /\ mutex_' = [mutex_ EXCEPT ![pp, l] = NoThread]
       /\ IF ~LaneExists(pp, l)
          THEN OutOfRange /\ UNCHANGED <<queue_, cv_>>
          ELSE IF Closed(pp, l)
               THEN ProbeNext /\ UNCHANGED <<queue_, cv_>>
               ELSE Enqueue(l)
    /\ UNCHANGED <<done_, index_, posted, PostFrame>>

\* Emplace: std::lock_guard lock { mutex_ }
PostEmplaceLock ==
    /\ ~crashed
    /\ ppc = "emplock"
    /\ LET l == ProbeLane(pk, 0) IN
       IF ~LaneExists(pp, l)
       THEN OutOfRange /\ UNCHANGED mutex_
       ELSE /\ Unlocked(pp, l)
            /\ mutex_' = [mutex_ EXCEPT ![pp, l] = Poster]
            /\ ppc' = "empbody"
            /\ UNCHANGED <<pp, pk, pn, pv, home, ub, crashed>>
    /\ UNCHANGED <<done_, queue_, cv_, index_, posted, PostFrame>>

\* Emplace: the body under the lock
PostEmplaceBody ==
    /\ ~crashed
    /\ ppc = "empbody"
    /\ LET l == ProbeLane(pk, 0) IN
       /\ mutex_' = [mutex_ EXCEPT ![pp, l] = NoThread]
       /\ IF ~LaneExists(pp, l)
          THEN OutOfRange /\ UNCHANGED <<queue_, cv_>>
          ELSE IF Closed(pp, l)
               THEN /\ PostReturn
                    /\ home' = Append(home, NoHome)
                    /\ UNCHANGED <<queue_, cv_, ub, crashed>>
               ELSE Enqueue(l)
    /\ UNCHANGED <<done_, index_, posted, PostFrame>>

\* ------------------------------------------------------ Stop / Clear
MainFrame == <<kind, count_, index_, workerVars, postVars, log, home, ub, crashed>>

\* how often the controlling thread calls Stop() on a pool, and Clear()
StopCalls == {0, 1}
ClearCalls == {0}

\* the futures Stop still has to look at, from position mn on
Joinable(p) == {j \in LaneIdx : j >= mn /\ j < tsize[p] /\ valid[p, j]}

\* std::future::get returns: the worker's Run has returned
Finished(p, j) == wpc[p, j] = "exit"

\* Tasker<T,N>::Stop ends with queues_.clear(); taskers_.clear()
ClearsVectors == kind = "Tasker" /\ count_ # 1

\* the operation of the controlling thread returns to its caller
MainReturn ==
    /\ mpc' = "idle"
    /\ mop' = "none"
    /\ mp' = "A"
    /\ mn' = 0

\* Stop / Clear / destructor is called on p: the loop over queues_ starts, or is
\* skipped when the vector is empty
MainCall(p, op, first, skip) ==
    /\ ~crashed
    /\ mpc = "idle"
    /\ life[p] = "live"
    /\ IF nqueues[p] > 0
       THEN mpc' = first /\ mop' = op /\ mp' = p /\ mn' = 0
       ELSE IF skip = "idle"
            THEN MainReturn
            ELSE mpc' = skip /\ mop' = op /\ mp' = p /\ mn' = 0
    /\ UNCHANGED <<laneVars, life, nqueues, tsize, valid, stops, moved, MainFrame>>

MainStop(p) ==
    /\ stops[p] \in StopCalls
    /\ MainCall(p, "stop", "stoplock", "stopjoin")
    /\ UNCHANGED clears

MainClear(p) ==
    /\ clears \in ClearCalls
    /\ MainCall(p, "clear", "clearlock", "idle")
    /\ clears' = clears + 1

\* ConcurrentQueue::Stop / Clear: std::lock_guard lock { mutex_ }
MainLock ==
    /\ ~crashed
    /\ mpc \in {"stoplock", "clearlock"}
    /\ Unlocked(mp, mn)
    /\ mutex_' = [mutex_ EXCEPT ![mp, mn] = Main]
    /\ mpc' = IF mpc = "stoplock" THEN "stopbody" ELSE "clearbody"
    /\ UNCHANGED <<done_, queue_, cv_, mop, mp, mn, life, nqueues, tsize, valid,
                   stops, clears, moved, MainFrame>>

\* ConcurrentQueue::Stop: done_ = true, then notify_all
StopBody ==
    /\ ~crashed
    /\ mpc = "stopbody"
    /\ done_' = [done_ EXCEPT ![mp, mn] = TRUE]
    /\ mutex_' = [mutex_ EXCEPT ![mp, mn] = NoThread]
    /\ cv_' = NotifyAll(mp, mn, cv_)
    /\ IF mn + 1 < nqueues[mp]
       THEN mn' = mn + 1 /\ mpc' = "stoplock"
       ELSE mn' = 0 /\ mpc' = "stopjoin"
    /\ UNCHANGED <<queue_, mop, mp, life, nqueues, tsize, valid,
                   stops, clears, moved, MainFrame>>

\* a Clear that closes the lane as well
ClearFlag_Closes(d, p, n) == [d EXCEPT ![p, n] = TRUE]

\* Clear assigns queue_ only: done_ stays as it is
ClearFlag(d, p, n) == d

\* ConcurrentQueue::Clear: queue_ = {}
ClearBody ==
    /\ ~crashed
    /\ mpc = "clearbody"
    /\ queue_' = [queue_ EXCEPT ![mp, mn] = <<>>]
    /\ done_' = ClearFlag(done_, mp, mn)
    /\ mutex_' = [mutex_ EXCEPT ![mp, mn] = NoThread]
    /\ IF mn + 1 < nqueues[mp]
       THEN mn' = mn + 1 /\ mpc' = "clearlock" /\ UNCHANGED <<mop, mp>>
       ELSE MainReturn
    /\ UNCHANGED <<cv_, life, nqueues, tsize, valid,
                   stops, clears, moved, MainFrame>>

\* Stop has joined every worker: Tasker<T,N> empties its vectors; then the caller
\* goes on (plain Stop returns, a destructor ends the object, a move spawns)
StopReturn ==
    /\ stops' = [stops EXCEPT ![mp] = stops[mp] + 1]
    /\ IF ClearsVectors
       THEN /\ nqueues' = [nqueues EXCEPT ![mp] = 0]
            /\ tsize' = [tsize EXCEPT ![mp] = 0]
       ELSE UNCHANGED <<nqueues, tsize>>
    /\ IF mop \in {"ctor", "assign"}
       THEN mpc' = "spawn" /\ mn' = 0 /\ UNCHANGED <<mop, mp>>
       ELSE MainReturn
    /\ life' = IF mop = "dtor" THEN [life EXCEPT ![mp] = "dead"] ELSE life
    /\ UNCHANGED valid

\* mutant: the future stays valid after the join (wait() in place of get())
AfterGet_StillValid(p, j) == valid

\* std::future::get leaves the future invalid
AfterGet(p, j) == [valid EXCEPT ![p, j] = FALSE]

\* the first future at or after position mn that is still valid
NextJoin(p) == CHOOSE x \in Joinable(p) : \A y \in Joinable(p) : x <= y

\* Stop: the loop over taskers_ (valid() then get())
StopJoin ==
    /\ ~crashed
    /\ mpc = "stopjoin"
    /\ IF Joinable(mp) = {}
       THEN StopReturn
       ELSE /\ Finished(mp, NextJoin(mp))
            /\ valid' = AfterGet(mp, NextJoin(mp))
            /\ mn' = NextJoin(mp) + 1
            /\ UNCHANGED <<mpc, mop, mp, life, nqueues, tsize, stops>>
    /\ UNCHANGED <<laneVars, clears, moved, MainFrame>>

\* ~Tasker calls Stop(); ~TaskerBase is defaulted: taskers_ is destroyed first and
\* the destructor of a std::async future blocks until its thread has finished
MainDestroy(p) ==
    /\ IF kind = "Tasker"
       THEN MainCall(p, "dtor", "stoplock", "stopjoin")
       ELSE MainCall(p, "dtor", "dtorjoin", "dtorjoin")
    /\ UNCHANGED clears

DtorJoin ==
    /\ ~crashed
    /\ mpc = "dtorjoin"
    /\ IF Joinable(mp) = {}
       THEN /\ life' = [life EXCEPT ![mp] = "dead"]
            /\ MainReturn
            /\ UNCHANGED valid
       ELSE /\ Finished(mp, NextJoin(mp))
            /\ valid' = AfterGet(mp, NextJoin(mp))
            /\ mn' = NextJoin(mp) + 1
            /\ UNCHANGED <<mpc, mop, mp, life>>
    /\ UNCHANGED <<laneVars, nqueues, tsize, stops, clears, moved, MainFrame>>

\* ------------------------------------------------- TaskerBase move
\* the destination and the source of the move ("this" and "other")
Dst == "B"
Src == "A"

MoveFrame == <<kind, count_, index_, postVars, log, home, ub, crashed, clears>>

\* TaskerBase(TaskerBase&&) on an object under construction, or operator= on a
\* constructed one: the loop over the lanes starts
MainMove ==
    /\ ~crashed
    /\ mpc = "idle"
    /\ kind = "TaskerBase"
    /\ moved = "no"
    /\ life[Src] = "live"
    /\ life[Dst] \in {"unborn", "live"}
    /\ IF life[Dst] = "unborn"
       THEN /\ moved' = "ctor"
            /\ mop' = "ctor"
            /\ life' = [life EXCEPT ![Dst] = "building"]
            /\ nqueues' = [nqueues EXCEPT ![Dst] = count_]
            /\ tsize' = [tsize EXCEPT ![Dst] = IF count_ = 1 THEN 1 ELSE 0]
       ELSE /\ moved' = "assign"
            /\ mop' = "assign"
            /\ UNCHANGED <<life, nqueues, tsize>>
    /\ mp' = Src
    /\ mn' = 0
    /\ mpc' = "mvlockB"
    /\ UNCHANGED <<laneVars, valid, workerVars, stops, MoveFrame>>

\* std::scoped_lock lock { mutex_, other.mutex_ } (std::lock): block on one mutex
MoveLock ==
    /\ ~crashed
    /\ mpc \in {"mvlockB", "mvlockA"}
    /\ LET q == IF mpc = "mvlockB" THEN Dst ELSE Src IN
       /\ Unlocked(q, mn)
       /\ mutex_' = [mutex_ EXCEPT ![q, mn] = Main]
    /\ mpc' = IF mpc = "mvlockB" THEN "mvtryA" ELSE "mvtryB"
    /\ UNCHANGED <<done_, queue_, cv_, mop, mp, mn, life, nqueues, tsize, valid,
                   workerVars, stops, moved, MoveFrame>>

\* std::lock: try the other mutex; on failure release the first and block on the other
MoveTry ==
    /\ ~crashed
    /\ mpc \in {"mvtryA", "mvtryB"}
    /\ LET q == IF mpc = "mvtryA" THEN Src ELSE Dst
           h == IF mpc = "mvtryA" THEN Dst ELSE Src IN
       IF Unlocked(q, mn)
       THEN /\ mutex_' = [mutex_ EXCEPT ![q, mn] = Main]
            /\ mpc' = "mvbody"
       ELSE /\ mutex_' = [mutex_ EXCEPT ![h, mn] = NoThread]
            /\ mpc' = IF mpc = "mvtryA" THEN "mvlockA" ELSE "mvlockB"
    /\ UNCHANGED <<done_, queue_, cv_, mop, mp, mn, life, nqueues, tsize, valid,
                   workerVars, stops, moved, MoveFrame>>

\* a transfer that appends the source's items to those of the destination
MoveQueue_Merge(q, n) == [q EXCEPT ![Dst, n] = q[Dst, n] \o q[Src, n], ![Src, n] = <<>>]

\* a transfer that leaves the items in the source lane as well
MoveQueue_Copy(q, n) == [q EXCEPT ![Dst, n] = q[Src, n]]

\* queue_ = std::move(other.queue_): the destination's items are replaced, the
\* moved-from std::queue is left empty; done_ and cv_ are not touched
MoveQueue(q, n) ==
    [q EXCEPT ![Dst, n] = q[Src, n], ![Src, n] = <<>>]

\* a transfer that carries the closed flag of the source lane along
MoveFlag_Copied(d, n) == [d EXCEPT ![Dst, n] = d[Src, n]]

\* the move assignment assigns queue_ only: done_ of both lanes stays as it is
MoveFlag(d, n) == d

\* ConcurrentQueue::operator=(ConcurrentQueue&&) under both locks; after the last
\* lane other.Stop() begins
MoveBody ==
    /\ ~crashed
    /\ mpc = "mvbody"
    /\ queue_' = MoveQueue(queue_, mn)
    /\ done_' = MoveFlag(done_, mn)
    /\ mutex_' = [mutex_ EXCEPT ![Dst, mn] = NoThread, ![Src, mn] = NoThread]
    /\ IF mn + 1 < count_
       THEN mn' = mn + 1 /\ mpc' = "mvlockB"
       ELSE mn' = 0 /\ mpc' = "stoplock"
    /\ UNCHANGED <<cv_, mop, mp, life, nqueues, tsize, valid,
                   workerVars, stops, moved, MoveFrame>>

\* whether the move starts workers on the destination
SpawnsWorkers ==
    IF mop = "ctor" THEN TRUE
    ELSE IF count_ = 1 THEN ~valid[Dst, 0]
    ELSE tsize[Dst] = 0

\* std::async(std::launch::async, &TaskerBase::Run, this, n) for every lane
MoveSpawn ==
    /\ ~crashed
    /\ mpc = "spawn"
    /\ IF SpawnsWorkers
       THEN /\ tsize' = [tsize EXCEPT ![Dst] = count_]
            /\ valid' = [p \in Pools, n \in LaneIdx |->
                            IF p = Dst /\ n < count_ THEN TRUE ELSE valid[p, n]]
            /\ wpc' = [p \in Pools, n \in LaneIdx |->
                            IF p = Dst /\ n < count_ THEN LoopStart ELSE wpc[p, n]]
       ELSE UNCHANGED <<tsize, valid, wpc>>
    /\ life' = [life EXCEPT ![Dst] = "live"]
    /\ MainReturn
    /\ UNCHANGED <<laneVars, nqueues, wi, wval, stops, moved, MoveFrame>>

\* ------------------------------------------------------ specification
\* the state after construction of pool A: lanes empty and open, workers started
Init ==
    /\ kind \in Kinds
    /\ count_ \in {1, N}
    /\ life = [p \in Pools |-> IF p = "A" THEN "live" ELSE "unborn"]
    /\ nqueues = [p \in Pools |-> IF p = "A" THEN count_ ELSE 0]
    /\ done_ = [p \in Pools, n \in LaneIdx |-> FALSE]
    /\ queue_ = [p \in Pools, n \in LaneIdx |-> <<>>]
    /\ mutex_ = [p \in Pools, n \in LaneIdx |-> NoThread]
    /\ cv_ = [p \in Pools, n \in LaneIdx |-> {}]
    /\ index_ = [p \in Pools |-> 0]
    /\ tsize = [p \in Pools |-> IF p = "A" THEN count_ ELSE 0]
    /\ valid = [p \in Pools, n \in LaneIdx |-> p = "A" /\ n < count_]
    /\ wpc = [p \in Pools, n \in LaneIdx |-> IF p = "A" /\ n < count_ THEN LoopStart ELSE "none"]
    /\ wi = [p \in Pools, n \in LaneIdx |-> 0]
    /\ wval = [p \in Pools, n \in LaneIdx |-> NoValue]
    /\ mpc = "idle" /\ mop = "none" /\ mp = "A" /\ mn = 0
    /\ ppc = "idle" /\ pp = "A" /\ pk = 0 /\ pn = 0 /\ pv = NoValue /\ posted = 0
    /\ log = [p \in Pools |-> <<>>]
    /\ home = <<>>
    /\ stops = [p \in Pools |-> 0]
    /\ clears = 0
    /\ moved = "no"
    /\ ub = FALSE
    /\ crashed = FALSE

Next ==
    \/ \E n \in LaneIdx : Worker("A", n)
    \/ \E n \in LaneIdx : SpuriousWake("A", n)
    \/ PostStart("A", MaxPosts)
    \/ PostTryLock
    \/ PostTryBody
    \/ PostEmplaceLock
    \/ PostEmplaceBody
    \/ MainStop("A")
    \/ MainClear("A")
    \/ MainDestroy("A")
    \/ MainLock
    \/ StopBody
    \/ ClearBody
    \/ StopJoin
    \/ DtorJoin

Spec == Init /\ [][Next]_vars

\* two TaskerBase pools: A is moved into B, which is either not yet constructed
\* (move construction) or constructed and running (move assignment)
MoveInit ==
    /\ kind = "TaskerBase"
    /\ count_ \in {1, N}
    /\ \E b \in {"unborn", "live"} :
         /\ life = [p \in Pools |-> IF p = "A" THEN "live" ELSE b]
         /\ nqueues = [p \in Pools |-> IF life[p] = "live" THEN count_ ELSE 0]
         /\ tsize = nqueues
         /\ valid = [p \in Pools, n \in LaneIdx |-> life[p] = "live" /\ n < count_]
         /\ wpc = [p \in Pools, n \in LaneIdx |->
                      IF life[p] = "live" /\ n < count_ THEN "pop" ELSE "none"]
    /\ done_ = [p \in Pools, n \in LaneIdx |-> FALSE]
    /\ queue_ = [p \in Pools, n \in LaneIdx |-> <<>>]
    /\ mutex_ = [p \in Pools, n \in LaneIdx |-> NoThread]
    /\ cv_ = [p \in Pools, n \in LaneIdx |-> IF wpc[p, n] = "pop" THEN {<<p, n>>} ELSE {}]
    /\ index_ = [p \in Pools |-> 0]
    /\ wi = [p \in Pools, n \in LaneIdx |-> 0]
    /\ wval = [p \in Pools, n \in LaneIdx |-> NoValue]
    /\ mpc = "idle" /\ mop = "none" /\ mp = "A" /\ mn = 0
    /\ ppc = "idle" /\ pp = "A" /\ pk = 0 /\ pn = 0 /\ pv = NoValue /\ posted = 0
    /\ log = [p \in Pools |-> <<>>]
    /\ home = <<>>
    /\ stops = [p \in Pools |-> 0]
    /\ clears = 0
    /\ moved = "no"
    /\ ub = FALSE
    /\ crashed = FALSE

MoveNext ==
    \/ \E p \in Pools, n \in LaneIdx : Worker(p, n)
    \/ \E p \in Pools : PostStart(p, MaxPosts)
    \/ PostTryLock
    \/ PostTryBody
    \/ PostEmplaceLock
    \/ PostEmplaceBody
    \/ MainStop(Dst)
    \/ MainMove
    \/ MoveLock
    \/ MoveTry
    \/ MoveBody
    \/ MoveSpawn
    \/ MainLock
    \/ StopBody
    \/ StopJoin

MoveSpec == MoveInit /\ [][MoveNext]_vars

\* an idle N-lane pool whose handler is paused: every worker of A is blocked in
\* Pop on its own lane, the producer posts SpreadPosts items, and a worker that
\* has taken an item stays in the handler
SpreadInit ==
    /\ kind \in Kinds
    /\ count_ = N
    /\ life = [p \in Pools |-> IF p = "A" THEN "live" ELSE "unborn"]
    /\ nqueues = [p \in Pools |-> IF p = "A" THEN count_ ELSE 0]
    /\ tsize = nqueues
    /\ valid = [p \in Pools, n \in LaneIdx |-> p = "A"]
    /\ wpc = [p \in Pools, n \in LaneIdx |-> IF p = "A" THEN "pop" ELSE "none"]
    /\ done_ = [p \in Pools, n \in LaneIdx |-> FALSE]
    /\ queue_ = [p \in Pools, n \in LaneIdx |-> <<>>]
    /\ mutex_ = [p \in Pools, n \in LaneIdx |-> NoThread]
    /\ cv_ = [p \in Pools, n \in LaneIdx |-> IF p = "A" THEN {<<p, n>>} ELSE {}]
    /\ index_ = [p \in Pools |-> 0]
    /\ wi = [p \in Pools, n \in LaneIdx |-> 0]
    /\ wval = [p \in Pools, n \in LaneIdx |-> NoValue]
    /\ mpc = "idle" /\ mop = "none" /\ mp = "A" /\ mn = 0
    /\ ppc = "idle" /\ pp = "A" /\ pk = 0 /\ pn = 0 /\ pv = NoValue /\ posted = 0
    /\ log = [p \in Pools |-> <<>>]
    /\ home = <<>>
    /\ stops = [p \in Pools |-> 0]
    /\ clears = 0
    /\ moved = "no"
    /\ ub = FALSE
    /\ crashed = FALSE

SpreadNext ==
    \/ \E n \in LaneIdx : RunPopLock("A", n)
    \/ \E n \in LaneIdx : RunPopBody("A", n)
    \/ PostStart("A", SpreadPosts)
    \/ PostTryLock
    \/ PostTryBody
    \/ PostEmplaceLock
    \/ PostEmplaceBody

SpreadSpec == SpreadInit /\ [][SpreadNext]_vars

\* move assignment of A into the running pool B, with posts to either pool
AssignInit == MoveInit /\ life[Dst] = "live"

AssignNext ==
    \/ \E p \in Pools, n \in LaneIdx : Worker(p, n)
    \/ \E p \in Pools : PostStart(p, MaxPosts)
    \/ PostTryLock
    \/ PostTryBody
    \/ PostEmplaceLock
    \/ PostEmplaceBody
    \/ MainMove
    \/ MoveLock
    \/ MoveTry
    \/ MoveBody
    \/ MoveSpawn
    \/ MainLock
    \/ StopBody
    \/ StopJoin

AssignSpec == AssignInit /\ [][AssignNext]_vars

\* the move scenarios with Clear() on either pool as well; the items are posted
\* to the source
OwnNext ==
    \/ \E p \in Pools, n \in LaneIdx : Worker(p, n)
    \/ PostStart(Src, MaxPosts)
    \/ PostTryLock
    \/ PostTryBody
    \/ PostEmplaceLock
    \/ PostEmplaceBody
    \/ MainStop(Dst)
    \/ \E p \in Pools : MainClear(p)
    \/ MainMove
    \/ MoveLock
    \/ MoveTry
    \/ MoveBody
    \/ MoveSpawn
    \/ MainLock
    \/ StopBody
    \/ ClearBody
    \/ StopJoin

OwnSpec == MoveInit /\ [][OwnNext]_vars

\* one ConcurrentQueue (lane 0 of A) used directly: N consumer threads that each
\* call Pop once, a producer that calls Emplace, and a thread that calls Stop
Consumers == {"A"} \X LaneIdx

QueueInit ==
    /\ kind = "Tasker"
    /\ count_ = 1
    /\ life = [p \in Pools |-> IF p = "A" THEN "live" ELSE "unborn"]
    /\ nqueues = [p \in Pools |-> IF p = "A" THEN 1 ELSE 0]
    /\ tsize = [p \in Pools |-> 0]
    /\ valid = [p \in Pools, n \in LaneIdx |-> FALSE]
    /\ wpc = [p \in Pools, n \in LaneIdx |-> IF p = "A" THEN "pop" ELSE "none"]
    /\ done_ = [p \in Pools, n \in LaneIdx |-> FALSE]
    /\ queue_ = [p \in Pools, n \in LaneIdx |-> <<>>]
    /\ mutex_ = [p \in Pools, n \in LaneIdx |-> NoThread]
    /\ cv_ = [p \in Pools, n \in LaneIdx |-> {}]
    /\ index_ = [p \in Pools |-> 0]
    /\ wi = [p \in Pools, n \in LaneIdx |-> 0]
    /\ wval = [p \in Pools, n \in LaneIdx |-> NoValue]
    /\ mpc = "idle" /\ mop = "none" /\ mp = "A" /\ mn = 0
    /\ ppc = "idle" /\ pp = "A" /\ pk = 0 /\ pn = 0 /\ pv = NoValue /\ posted = 0
    /\ log = [p \in Pools |-> <<>>]
    /\ home = <<>>
    /\ stops = [p \in Pools |-> 0]
    /\ clears = 0
    /\ moved = "no"
    /\ ub = FALSE
    /\ crashed = FALSE

ConsumerSteps(w) == PopLockOn(w[1], w[2], 0) \/ PopBodyOn(w[1], w[2], 0)

QueueNext ==
    \/ \E w \in Consumers : PopLockOn(w[1], w[2], 0)
    \/ \E w \in Consumers : PopBodyOn(w[1], w[2], 0)
    \/ \E w \in Consumers : SpuriousWakeOn(w[1], w[2], 0)
    \/ PostStart("A", MaxPosts)
    \/ PostEmplaceLock
    \/ PostEmplaceBody
    \/ MainStop("A")
    \/ MainLock
    \/ StopBody
    \/ StopJoin

\* ------------------------------------------------- scheduling assumptions
\* posts that all complete strictly before Stop is invoked; no Clear, no move
PostBeforeStop(p) == mpc = "idle" /\ stops[p] = 0 /\ PostStart(p, MaxPosts)
StopAfterPosts(p) == ppc = "idle" /\ MainStop(p)

PostSteps == PostTryLock \/ PostTryBody \/ PostEmplaceLock \/ PostEmplaceBody
StopSteps == MainLock \/ StopBody \/ StopJoin

QuietNext ==
    \/ \E n \in LaneIdx : Worker("A", n)
    \/ \E n \in LaneIdx : SpuriousWake("A", n)
    \/ PostBeforeStop("A")
    \/ PostSteps
    \/ StopAfterPosts("A")
    \/ StopSteps

\* every thread that can take a step of the operation it is in eventually takes
\* it (handlers return); nothing obliges a caller to start another operation,
\* and no wake-up is owed to a waiting thread other than by notify
Fairness ==
    /\ \A p \in Pools, n \in LaneIdx : WF_vars(Worker(p, n))
    /\ WF_vars(PostSteps)
    /\ WF_vars(StopSteps)

FairSpec == Init /\ [][QuietNext]_vars /\ Fairness

\* in addition, the lock_guard of Stop on a lane is not starved: a thread blocked
\* in lock() on a mutex that is released again and again acquires it
StopFairSpec == Init /\ [][QuietNext]_vars /\ Fairness /\ SF_vars(MainLock)

\* a running pool that is posted to and cleared at any moment; Stop is not called
ClearNext ==
    \/ \E n \in LaneIdx : Worker("A", n)
    \/ PostStart("A", MaxPosts)
    \/ PostSteps
    \/ MainClear("A")
    \/ MainLock
    \/ ClearBody

ClearFairSpec == Init /\ [][ClearNext]_vars /\ Fairness /\ WF_vars(ClearBody)

\* the queue used directly, under the same scheduling assumptions
QueueFairSpec ==
    /\ QueueInit
    /\ [][QueueNext]_vars
    /\ \A w \in Consumers : WF_vars(ConsumerSteps(w))
    /\ WF_vars(PostSteps)
    /\ WF_vars(StopSteps)

MoveSteps == MoveLock \/ MoveTry \/ MoveBody \/ MoveSpawn

\* the move scenarios under the same scheduling assumptions
MoveFairSpec == MoveInit /\ [][MoveNext]_vars /\ Fairness /\ WF_vars(MoveSteps)

\* ------------------------------------------------------------- claims
\* number of handler invocations that received item i
Times(i) ==
    Cardinality({<<p, k>> \in Pools \X (1 .. MaxPosts) : k <= Len(log[p]) /\ log[p][k] = i})

\* the Post of item i has returned
Returned(i) == Len(home) >= i

\* C1: no loss under Running. Under FairSpec (posts complete before Stop is
\* invoked, no Clear, no move, handlers return) every item whose Post has
\* returned is eventually handed to a handler, and no item is ever handed to
\* two handler invocations.
C1_NoLoss ==
    \A i \in 1 .. MaxPosts :
        /\ [](Times(i) <= 1)
        /\ (Returned(i) ~> (Times(i) = 1))

\* C1 witness: all posts have returned and a worker is handling an item it stole
\* from a lane that is not its home lane
C1_Witness ==
    /\ Len(home) = MaxPosts
    /\ \E n \in LaneIdx :
         /\ wpc["A", n] = "handle"
         /\ home[wval["A", n]] # NoHome
         /\ home[wval["A", n]][2] # n

\* the lanes of p that exist are all closed and empty
Drained(p) == \A n \in LaneIdx : n < nqueues[p] => (done_[p, n] /\ queue_[p, n] = <<>>)

\* C2, for a pool that is never the destination of a move (Spec): whenever a
\* Stop() on pool p returns, every lane of p is closed and empty (before and
\* after the vectors are emptied), and, absent Clear, every item that a Post
\* enqueued in a lane of p has been handed to a handler.
C2_Drain ==
    [][\A p \in Pools :
          stops'[p] # stops[p] =>
             /\ Drained(p)
             /\ \A n \in LaneIdx : queue_'[p, n] = <<>>
             /\ clears = 0 =>
                  \A i \in 1 .. Len(home) : home[i][1] = p => Times(i) >= 1]_vars

\* C2_Drain is reached: a Stop() has returned on a two-lane pool after both posted items
\* were enqueued and handled
C2_Witness ==
    /\ count_ = N
    /\ stops["A"] = 1
    /\ Len(home) = MaxPosts
    /\ \A i \in 1 .. MaxPosts : home[i] # NoHome /\ Times(i) = 1

\* C2: drain-to-completion. In the state right after a Stop() on pool p returns,
\* every lane of p is closed and empty.
C2_Original ==
    [][\A p \in Pools :
          stops'[p] # stops[p] =>
             \A n \in LaneIdx : n < nqueues'[p] => (done_'[p, n] /\ queue_'[p, n] = <<>>)]_vars

\* a Stop() is running on a pool on which a Stop() has already returned
RepeatedStop == mop = "stop" /\ stops[mp] >= 1

\* C3: idempotent stop. While a second Stop() runs on a pool whose first Stop()
\* has returned, no future is valid (nothing is joined, Stop does not wait for a
\* worker) and no step changes the lanes' flags and contents, the futures, the
\* vectors or a worker.
C3_IdempotentStop ==
    [][RepeatedStop =>
          /\ \A j \in LaneIdx : ~valid[mp, j]
          /\ UNCHANGED <<done_, queue_, cv_, valid, nqueues, tsize, workerVars, log>>]_vars

\* C3 witness: the second Stop() has returned
C3_Witness == stops["A"] = 2 /\ mpc = "idle"

\* C4: silent drop. A Post that begins after Stop() has returned is a harmless
\* drop: the first lane it addresses exists (it accesses no lane that does not
\* exist), and the lanes of the stopped pool stay empty.
C4_Original ==
    [][(ppc = "idle" /\ ppc' # "idle" /\ mpc = "idle" /\ stops[pp'] >= 1) =>
          /\ LaneExists(pp', ProbeLane(pk', 0))
          /\ \A n \in LaneIdx : queue_[pp', n] = <<>>]_vars

\* the items a Post enqueued, in the order of their Post calls
Enqueued == SelectSeq([i \in 1 .. Len(home) |-> i], LAMBDA i : home[i] # NoHome)

\* s is a prefix of t
IsPrefix(s, t) == Len(s) <= Len(t) /\ \A k \in 1 .. Len(s) : s[k] = t[k]

\* C5: FIFO of the sequential executor. In the single-lane pools the handler
\* receives the items in the order in which their Post calls enqueued them
\* (exactly that sequence when nothing was cleared), and at most one handler
\* invocation is running at a time.
C5_Fifo ==
    count_ = 1 =>
       /\ \A j, k \in 1 .. Len(log["A"]) : j < k => log["A"][j] < log["A"][k]
       /\ clears = 0 => IsPrefix(log["A"], Enqueued)
       /\ Cardinality({n \in LaneIdx : wpc["A", n] = "handle"}) <= 1

\* C5 witness: the first item is in the handler while the second waits in the lane
C5_Witness ==
    /\ count_ = 1
    /\ wpc["A", 0] = "handle"
    /\ log["A"] = <<1>>
    /\ queue_["A", 0] = <<2>>

\* C8: destruction performs stop. While the destructor of a pool that was never
\* stopped waits for a worker thread, every lane of the pool has been closed.
C8_Original ==
    (mop = "dtor" /\ mpc \in {"stopjoin", "dtorjoin"} /\ stops[mp] = 0) =>
        \A n \in LaneIdx : n < nqueues[mp] => done_[mp, n]

\* the move has returned to its caller
MoveDone == moved # "no" /\ mop \notin {"ctor", "assign"}

\* item i is queued in a lane of pool p / was handed to the handler of pool p
InLane(i, p) == \E n \in LaneIdx, k \in 1 .. MaxPosts : k <= Len(queue_[p, n]) /\ queue_[p, n][k] = i
InLog(i, p) == \E k \in 1 .. MaxPosts : k <= Len(log[p]) /\ log[p][k] = i

\* C6: move assignment preserves pending work. Once A has been move-assigned
\* into a pool B that was running (never stopped), every item then queued in a
\* lane of B is eventually handed to B's handler.
C6_Original ==
    \A i \in 1 .. MaxPosts :
        (MoveDone /\ moved = "assign" /\ stops[Dst] = 0 /\ InLane(i, Dst)) ~> InLog(i, Dst)

\* worker n of pool p is a live thread
Live(p, n) == wpc[p, n] \notin {"none", "exit"}

\* C7: move hand-over. After a move has returned, the workers of the source
\* have all exited, and whenever an item is queued in a lane of the destination
\* the destination has a live worker bound to it.
C7_Original ==
    MoveDone =>
       /\ \A n \in LaneIdx : ~Live(Src, n)
       /\ (\E n \in LaneIdx : queue_[Dst, n] # <<>>) => \E n \in LaneIdx : Live(Dst, n)

\* the lane the i-th Post put its item in
LaneOf(i) == home[i][2]

LaneSlots(i) ==
    {<<p, n, k>> \in Pools \X LaneIdx \X (1 .. MaxPosts) :
        k <= Len(queue_[p, n]) /\ queue_[p, n][k] = i}
Handling(i) == {w \in Pools \X LaneIdx : wpc[w] = "handle" /\ wval[w] = i}

\* C10: unique ownership. Every posted item is in at most one place (one slot
\* of one lane, or the local context of one worker), is handed to at most one
\* handler invocation, and is no longer in any lane once it has been handed
\* over, whatever the interleaving of Post, stealing, Pop, Clear, Stop and move.
C10_UniqueOwner ==
    \A i \in 1 .. MaxPosts :
        /\ Cardinality(LaneSlots(i)) + Cardinality(Handling(i)) <= 1
        /\ Times(i) <= 1
        /\ Times(i) = 1 => LaneSlots(i) = {}

\* an item posted to A has been moved into B and is in the hands of a worker of
\* B while the other item is still queued
C10_Witness ==
    /\ MoveDone
    /\ \E i \in 1 .. MaxPosts, n \in LaneIdx :
         /\ i <= Len(home)
         /\ home[i][1] = Src
         /\ Handling(i) = {<<Dst, n>>}
         /\ \E j \in 1 .. MaxPosts : j # i /\ Cardinality(LaneSlots(j)) = 1

\* the lane the steal scan of worker w is at
ScanLane(w) == StealIndex(w[2], wi[w])

\* worker w leaves TryPop without a value
NoValueFromTryPop(w) ==
    /\ wpc[w] \in {"scan", "scanbody"}
    /\ wpc'[w] \in {"scan", "pop"}
    /\ <<wpc[w], wi[w]>> # <<wpc'[w], wi'[w]>>

\* C11: TryPop ignores the closed flag. A TryPop that holds the lock of a
\* non-empty lane takes the head of the lane and hands it to the handler,
\* whether or not the lane is closed, so that the items of a closed lane come
\* out in insertion order; a TryPop yields no value only when the lock was
\* held by another thread or the lane was empty.
C11_TryPop ==
    [][\A w \in Pools \X LaneIdx :
          LET p == w[1]
              l == ScanLane(w)
          IN /\ (wpc[w] = "scanbody" /\ wpc'[w] # "scanbody" /\ queue_[p, l] # <<>>) =>
                   /\ wpc'[w] = "handle"
                   /\ wval'[w] = Head(queue_[p, l])
                   /\ queue_'[p, l] = Tail(queue_[p, l])
             /\ NoValueFromTryPop(w) =>
                   IF wpc[w] = "scan"
                   THEN mutex_[p, l] # NoThread
                   ELSE queue_[p, l] = <<>> /\ queue_'[p, l] = <<>>]_vars

\* a worker holds, in TryPop, the lock of a sibling lane that Stop has closed
\* and that still has an item
C11_Witness ==
    \E n \in LaneIdx :
        LET l == ScanLane(<<"A", n>>) IN
        /\ wpc["A", n] = "scanbody"
        /\ l # n
        /\ done_["A", l]
        /\ queue_["A", l] # <<>>

\* the lane the running Emplace / TryEmplace is called on
PushLane == IF ppc \in {"emplock", "empbody"} THEN ProbeLane(pk, 0) ELSE ProbeLane(pk, pn)

\* the call appends exactly the posted item at the tail of its lane and returns
Appended ==
    /\ queue_' = [queue_ EXCEPT ![pp, PushLane] = Append(queue_[pp, PushLane], pv)]
    /\ home' = Append(home, <<pp, PushLane>>)
    /\ ppc' = "idle"

\* TryEmplace returns false: Post goes on to its next attempt
ReturnsFalse == pn' = pn + 1 /\ ppc' \in {"trylock", "emplock"} /\ home' = home

\* C12: a push on a closed queue is a no-op. Emplace on a closed queue leaves
\* every queue unchanged and raises no error; TryEmplace on a closed queue
\* returns false and leaves every queue unchanged; on an open queue TryEmplace
\* returns false only when the mutex is held by another thread, and otherwise
\* (like Emplace) appends exactly the one item at the tail and returns.
C12_ClosedPush ==
    [][LaneExists(pp, PushLane) =>
          /\ (ppc = "empbody" /\ ppc' # "empbody") =>
                IF done_[pp, PushLane]
                THEN queue_' = queue_ /\ ub' = ub /\ crashed' = crashed /\ ppc' = "idle"
                ELSE Appended
          /\ (ppc = "trybody" /\ ppc' # "trybody") =>
                IF done_[pp, PushLane]
                THEN queue_' = queue_ /\ ReturnsFalse
                ELSE Appended
          /\ (ppc = "trylock" /\ <<ppc, pn>>' # <<ppc, pn>>) =>
                IF mutex_[pp, PushLane] # NoThread
                THEN queue_' = queue_ /\ ReturnsFalse
                ELSE ppc' = "trybody"]_vars

\* the second Post was dropped by the closed lanes, with no error, while the
\* first item is still queued in its closed lane
C12_Witness ==
    /\ Len(home) = 2
    /\ home[1] # NoHome
    /\ home[2] = NoHome
    /\ ~ub
    /\ done_[home[1]]
    /\ queue_[home[1]] = <<1>>

\* items the producer has pushed, and consumers whose Pop returned an item
Pushed == Cardinality({i \in 1 .. Len(home) : home[i] # NoHome})
GotItem == {w \in Consumers : wpc[w] = "handle"}
Min(a, b) == IF a <= b THEN a ELSE b

\* C13: blocking Pop. Under the lock, Pop takes the head whenever the queue is
\* non-empty, closed or not; on an empty queue it returns the empty optional
\* at once when the queue is closed and waits (it does not return) when the
\* queue is open; a Pop has returned the empty optional only on a closed queue;
\* and there is no lost wake-up: once k items have been pushed, min(k, c) of
\* the c consumers eventually return with an item.
C13_BlockingPop ==
    /\ [][\A w \in Consumers :
             (wpc[w] = "popbody" /\ wpc'[w] # "popbody") =>
                IF queue_["A", 0] # <<>>
                THEN /\ wpc'[w] = "handle"
                     /\ wval'[w] = Head(queue_["A", 0])
                     /\ queue_'["A", 0] = Tail(queue_["A", 0])
                ELSE IF done_["A", 0]
                     THEN wpc'[w] = "exit" /\ w \notin cv_'["A", 0]
                     ELSE wpc'[w] = "pop" /\ w \in cv_'["A", 0]]_vars
    /\ [](\A w \in Consumers : wpc[w] = "exit" => done_["A", 0])
    /\ \A k \in 1 .. MaxPosts :
          (Pushed >= k) ~> (Cardinality(GotItem) >= Min(k, Cardinality(Consumers)))

\* both consumers have returned with an item from the open queue
C13_Witness ==
    /\ GotItem = Consumers
    /\ ~done_["A", 0]
    /\ queue_["A", 0] = <<>>
    /\ Pushed = 2

\* thread w is inside Pop (about to lock, under the lock, or waiting)
InPop(w) == wpc[w] \in {"pop", "popbody"}

\* C18: close wakes every blocked consumer. Once the queue is closed every
\* consumer eventually returns from Pop, and a consumer that is inside Pop when
\* the queue is closed and empty eventually returns the empty optional,
\* wherever it was between entering Pop and the wait; a repeated close changes
\* nothing but the mutex it takes and releases.
C18_CloseWakesAll ==
    /\ \A w \in Consumers :
          /\ done_["A", 0] ~> ~InPop(w)
          /\ (done_["A", 0] /\ queue_["A", 0] = <<>> /\ InPop(w)) ~> (wpc[w] = "exit")
    /\ [][(mpc = "stopbody" /\ mpc' # "stopbody" /\ done_[mp, mn]) =>
             UNCHANGED <<done_, queue_, cv_, workerVars, log>>]_vars

\* both consumers were released by the close with the empty optional, and a
\* second close has returned
C18_Witness ==
    /\ \A w \in Consumers : wpc[w] = "exit"
    /\ Pushed = 0
    /\ stops["A"] = 2

\* C14: closed is monotonic. A lane whose done_ is true has done_ true after
\* every step: no Post, Pop, TryPop, Clear, repeated Stop, lane transfer or
\* pool move reopens it.
C14_ClosedMonotonic ==
    [][\A p \in Pools, n \in LaneIdx : done_[p, n] => done_'[p, n]]_vars

\* the destination was stopped, then cleared, then received the lanes of the
\* source, then stopped again, and its lanes are still closed
C14_Witness ==
    /\ MoveDone
    /\ moved = "assign"
    /\ clears = 1
    /\ stops[Dst] = 2
    /\ Len(home) >= 1
    /\ \A n \in LaneIdx : n < count_ => done_[Dst, n]

\* every worker thread of pool p has left Run
AllExited(p) == \A n \in LaneIdx : n < count_ => wpc[p, n] = "exit"

\* C15: Stop terminates. With handlers that return and no Post overlapping
\* Stop, a Stop() that has been called eventually returns, and every worker,
\* wherever it was when the lanes were closed (waiting in Pop, in the steal
\* scan, in the handler), eventually leaves Run.
C15_StopTerminates ==
    /\ (mop = "stop") ~> (mpc = "idle" /\ stops["A"] >= 1)
    /\ (mop = "stop") ~> AllExited("A")

\* Stop() has returned on a two-lane pool whose workers handled every item
\* that was posted before it and then left Run
C15_Witness ==
    /\ count_ = N
    /\ kind = "TaskerBase"
    /\ mpc = "idle"
    /\ stops["A"] = 1
    /\ AllExited("A")
    /\ Len(log["A"]) = MaxPosts

\* worker w has left Run
Exited(w) == wpc[w] = "exit"

\* C16 as stated: worker termination point. In every state in which some
\* worker has exited, every lane of its pool is closed and empty.
C16_Original ==
    (\E n \in LaneIdx : Exited(<<"A", n>>)) =>
        \A n \in LaneIdx : n < count_ => (done_["A", n] /\ queue_["A", n] = <<>>)

\* C16 amended: a worker exits only at a step at which its own home lane is
\* closed and empty, and the home lane of an exited worker stays closed and
\* empty; the other lanes may still be open or hold items.
C16_HomeLane ==
    /\ [][\A w \in Pools \X LaneIdx :
             (~Exited(w) /\ Exited(w)') => (done_[w] /\ queue_[w] = <<>> /\ queue_'[w] = <<>>)]_vars
    /\ [](\A w \in Pools \X LaneIdx : Exited(w) => (done_[w] /\ queue_[w] = <<>>))

\* worker 0 has exited while lane 1 is still open and holds an item
C16_Witness ==
    /\ Exited(<<"A", 0>>)
    /\ count_ = N
    /\ ~done_["A", 1]
    /\ queue_["A", 1] # <<>>

\* the move is between two lane transfers: lanes below mn are in the
\* destination, lanes from mn on are still in the source
Torn ==
    /\ mop \in {"ctor", "assign"}
    /\ mpc \in {"mvlockB", "mvlockA", "mvtryA", "mvtryB", "mvbody"}
    /\ mn >= 1

\* C17: atomic lane transfer. While a move has transferred some lanes and not
\* yet the others, no worker, stealer or poster acts on the lanes of either
\* pool: the lane contents change only by the transfer itself.
C17_Original ==
    [][(Torn /\ mpc # "mvbody") => queue_' = queue_]_vars

\* Clear() has returned and no operation of the controlling thread is running
ClearReturned == clears = 1 /\ mpc = "idle"

\* the i-th Post put its item in a lane
WasEnqueued(i) == i <= Len(home) /\ home[i] # NoHome

\* C19: Clear does not close. The step of Clear on a lane empties that lane
\* and changes nothing else: no other lane, no closed flag, no waiting
\* thread, no worker (an item in the hands of a handler stays there) and no
\* handler record; and an item whose Post begins after Clear() has returned on
\* a running pool and that is enqueued is handed to the handler exactly once.
C19_ClearOnly ==
    /\ [][(mpc = "clearbody" /\ mpc' # "clearbody") =>
             /\ queue_' = [queue_ EXCEPT ![mp, mn] = <<>>]
             /\ UNCHANGED <<done_, cv_, workerVars, log, nqueues, tsize, valid, stops>>]_vars
    /\ \A i \in 1 .. MaxPosts :
          /\ [](Times(i) <= 1)
          /\ []((ClearReturned /\ posted < i) => [](WasEnqueued(i) => <>(Times(i) = 1)))

\* the first item was discarded by Clear, the second, posted to the still open
\* pool, has been handled, and no worker has exited
C19_Witness ==
    /\ clears = 1
    /\ stops["A"] = 0
    /\ WasEnqueued(1) /\ Times(1) = 0 /\ LaneSlots(1) = {} /\ Handling(1) = {}
    /\ WasEnqueued(2) /\ Times(2) = 1
    /\ \A n \in LaneIdx : ~Exited(<<"A", n>>) /\ ~done_["A", n]
    /\ count_ = N

\* item i was enqueued and is now in no lane and in nobody's hands, without
\* having been handed to a handler
Gone(i) == WasEnqueued(i) /\ LaneSlots(i) = {} /\ Handling(i) = {} /\ Times(i) = 0

\* C20: move assignment replaces the destination's lanes. The transfer of
\* lane n leaves in the destination lane exactly the items of the source lane
\* and leaves the source lane empty; the items that were queued in the
\* destination lane are in no lane afterwards and are never handed to a
\* handler; done_ of either lane and the set of threads waiting on either lane
\* are unchanged (no wake-up is issued).
C20_Replaces ==
    /\ [][(mpc = "mvbody" /\ mpc' # "mvbody") =>
             /\ queue_' = [queue_ EXCEPT ![Dst, mn] = queue_[Src, mn], ![Src, mn] = <<>>]
             /\ \A i \in 1 .. MaxPosts :
                   (\E k \in 1 .. Len(queue_[Dst, mn]) : queue_[Dst, mn][k] = i) => Gone(i)'
             /\ UNCHANGED <<done_, cv_, workerVars, log>>]_vars
    /\ [][\A i \in 1 .. MaxPosts : Gone(i) => Gone(i)']_vars

\* after the assignment an item that was posted to the destination is gone and
\* an item that was posted to the source is queued in the destination
C20_Witness ==
    /\ MoveDone
    /\ moved = "assign"
    /\ \E i, j \in 1 .. MaxPosts :
          /\ WasEnqueued(i) /\ home[i][1] = Dst /\ Gone(i)
          /\ WasEnqueued(j) /\ home[j][1] = Src /\ InLane(j, Dst)

====
